---- MODULE Spec2Model ----
(***************************************************************************)
(* Slot / appointment / notification engine of the clinic application.     *)
(*                                                                         *)
(* The database tables Appointment, DoctorAvailabilitySlot and             *)
(* Notification (src/models.py) are the state.  Every request handler of   *)
(* src/app.py and every helper of src/models.py that writes one of these   *)
(* tables is an action.  Free-text columns (reason, notes, message text    *)
(* beyond its template) and timestamps are not part of the state: no       *)
(* handler reads them back.                                                *)
(*                                                                         *)
(* Spec      every request runs to completion before the next one starts.  *)
(* SpecConc  requests of two threads interleave at every database read and *)
(*           every commit.                                                 *)
(***************************************************************************)
EXTENDS Integers, Sequences, FiniteSets, TLC

\* ------------------------------------------------------------------ users
\* User rows (role is fixed at signup); ids are the primary keys.
Doctors == {1, 2}
Patients == {3, 4}
Nurses == {5}

\* nurse_id = None, appointment_id = NULL, reschedule_id absent, no row found
NoNurse == 0
NoAppointment == 0
NoSlot == 0

\* The (doctor_id, date, time) keys requests name: two times of one doctor on
\* one day, and the first of these times for a second doctor.  date counts
\* days; time is the "HH:MM" string of the column.
Keys == {<<1, 1, "09:00">>, <<1, 1, "10:00">>, <<2, 1, "09:00">>}
Statuses == {"scheduled", "completed", "cancelled"}

\* ----------------------------------------------------------------- bounds
MaxAppointments == 2
MaxSlots == 2
MaxNotifications == 4
NumThreads == 2

Threads == 1..NumThreads
\* The appointment ids requests name; an id is missing whenever fewer rows exist.
AppointmentIds == 1..MaxAppointments

\* ------------------------------------------------------------------ state
VARIABLES
    appointments,   \* table Appointment: set of rows
    slots,          \* table DoctorAvailabilitySlot: set of rows
    notifications,  \* table Notification: rows in insertion order (id = index)
    last,           \* the last completed request: its arguments and its result
    pc,             \* SpecConc: position of each thread inside its handler
    req,            \* SpecConc: arguments of each thread's request
    loc,            \* SpecConc: local variables of each thread's handler
    schedules,      \* table DoctorSchedule: rows in insertion order (id = index)
    seed,           \* SpecSeed: the call of create_default_schedule under way
    medical_records \* table MedicalRecord: rows in insertion order (id = index)

vars == <<appointments, slots, notifications, last, pc, req, loc, schedules,
          seed, medical_records>>
db == <<appointments, slots, notifications>>
threads == <<pc, req, loc>>
seeding == <<schedules, seed>>

\* --------------------------------------------------------------- helpers
Max(S) == CHOOSE x \in S : \A y \in S : y <= x
Min(S) == CHOOSE x \in S : \A y \in S : x <= y

\* INTEGER PRIMARY KEY of SQLite: the next rowid is the largest one in use + 1.
NextId(rows) == IF rows = {} THEN 1 ELSE Max({r.id : r \in rows}) + 1

AppointmentRow(A, id) == CHOOSE a \in A : a.id = id
HasAppointment(A, id) == \E a \in A : a.id = id

\* DoctorAvailabilitySlot.query.filter_by(doctor_id, date, time)
MatchingSlots(S, doctor_id, date, time) ==
    {s \in S : s.doctor_id = doctor_id /\ s.date = date /\ s.time = time}

\* ....first(): LIMIT 1 of a table scan, i.e. the row with the least rowid;
\* NoSlot when no row matches.
FirstSlot(S, doctor_id, date, time) ==
    LET m == MatchingSlots(S, doctor_id, date, time)
    IN  IF m = {} THEN NoSlot ELSE Min({s.id : s \in m})

\* slot.is_available = b on the row with primary key sid, then commit.
SetAvailable(S, sid, b) ==
    {IF s.id = sid THEN [s EXCEPT !.is_available = b] ELSE s : s \in S}

\* Mutant of get_available_time_slots: the is_available filter is missing.
get_available_time_slots_any(S, doctor_id, date) ==
    {s.time : s \in {x \in S : x.doctor_id = doctor_id /\ x.date = date}}

\* models.get_available_time_slots
get_available_time_slots(S, doctor_id, date) ==
    {s.time : s \in {x \in S : x.doctor_id = doctor_id /\ x.date = date
                                  /\ x.is_available}}

\* Notification(user_id, appointment_id, message); is_read defaults to False.
\* kind stands for the message template.
Notification(user_id, appointment_id, kind) ==
    [user_id |-> user_id, appointment_id |-> appointment_id,
     kind |-> kind, is_read |-> FALSE]

\* -------------------------------------------------- models.create_appointment
\* Appointment(...) of create_appointment; checked_in defaults to False.
NewAppointment(A, patient_id, doctor_id, date, time, nurse_id) ==
    [id |-> NextId(A), patient_id |-> patient_id, doctor_id |-> doctor_id,
     nurse_id |-> nurse_id, date |-> date, time |-> time,
     status |-> "scheduled", checked_in |-> FALSE]

\* The slot availability check that opens create_appointment.
SlotIsAvailable(S, doctor_id, date, time) ==
    time \in get_available_time_slots(S, doctor_id, date)

\* Mutant of CloseSlot: the slot is left as it was.
CloseSlotSkipped(S, doctor_id, date, time) == S

\* Mutant of CloseSlot: a closed record is added when none is found.
CloseSlotUpsert(S, doctor_id, date, time) ==
    LET sid == FirstSlot(S, doctor_id, date, time)
    IN  IF sid # NoSlot THEN SetAvailable(S, sid, FALSE)
        ELSE S \cup {[id |-> NextId(S), doctor_id |-> doctor_id,
                      date |-> date, time |-> time, is_available |-> FALSE]}

\* "slot = ...first(); if slot: slot.is_available = False; commit"
CloseSlot(S, doctor_id, date, time) ==
    LET sid == FirstSlot(S, doctor_id, date, time)
    IN  IF sid # NoSlot THEN SetAvailable(S, sid, FALSE) ELSE S

\* Mutant of create_appointment_notifications: the nurse is never notified.
create_appointment_notifications_no_nurse(N, appt) ==
    N \o <<Notification(appt.doctor_id, appt.id, "created_doctor"),
           Notification(appt.patient_id, appt.id, "created_patient")>>

\* models.create_appointment_notifications
create_appointment_notifications(N, appt) ==
    N \o <<Notification(appt.doctor_id, appt.id, "created_doctor"),
           Notification(appt.patient_id, appt.id, "created_patient")>>
      \o (IF appt.nurse_id # NoNurse
            THEN <<Notification(appt.nurse_id, appt.id, "created_nurse")>>
            ELSE <<>>)

\* models.create_appointment as one uninterrupted call.  appointment is the
\* id of the returned row, NoAppointment for (None, "... not available").
create_appointment(A, S, N, patient_id, doctor_id, date, time, nurse_id) ==
    IF ~SlotIsAvailable(S, doctor_id, date, time)
    THEN [appointments |-> A, slots |-> S, notifications |-> N,
          appointment |-> NoAppointment]
    ELSE LET appt == NewAppointment(A, patient_id, doctor_id, date, time, nurse_id)
         IN  [appointments |-> A \cup {appt},
              slots |-> CloseSlot(S, doctor_id, date, time),
              notifications |-> create_appointment_notifications(N, appt),
              appointment |-> appt.id]

\* ------------------------------------------------------------ request log
\* op names the handler, ok its outcome (an appointment returned, True
\* returned, or the success branch of a view taken).
Request(op, ok) == [op |-> op, ok |-> ok]

NoRequest == Request("none", FALSE)

\* Arguments and local variables of a handler that is under way in a thread.
Args(op, patient_id, doctor_id, date, time, nurse_id, is_available) ==
    [op |-> op, patient_id |-> patient_id, doctor_id |-> doctor_id,
     date |-> date, time |-> time, nurse_id |-> nurse_id,
     is_available |-> is_available]

NoArgs == Args("none", 0, 0, 0, "", NoNurse, FALSE)

\* appointment: id of the row the handler inserted; slot, loaded: primary key
\* and is_available of the row its query loaded; ok: what it returned.
NoLocals == [appointment |-> NoAppointment, slot |-> NoSlot, loaded |-> FALSE,
             ok |-> FALSE]

\* create_default_schedule: its position (pc), its argument and its locals;
\* added holds the rows given to db.session.add and not yet committed.
NoSeed == [pc |-> "idle", doctor_id |-> 0, start_date |-> 0, end_date |-> 0,
           current_date |-> 0, added |-> <<>>]

\* Room left in the bounded tables.
RoomForSlot == Cardinality(slots) < MaxSlots
RoomForNotifications(n) == Len(notifications) + n <= MaxNotifications

\* ------------------------------------------------------------------- Init
Init ==
    /\ appointments = {}
    /\ slots = {}
    /\ notifications = <<>>
    /\ last = NoRequest
    /\ pc = [t \in Threads |-> "idle"]
    /\ req = [t \in Threads |-> NoArgs]
    /\ loc = [t \in Threads |-> NoLocals]
    /\ schedules = <<>>
    /\ seed = NoSeed
    /\ medical_records = <<>>

\* ---------------------------------------------------------------- actions
\* Mutant of toggle_slot: a row is added without looking for an existing one.
toggle_slot_insert_only(S, doctor_id, date, time, is_available) ==
    S \cup {[id |-> NextId(S), doctor_id |-> doctor_id, date |-> date,
             time |-> time, is_available |-> is_available]}

\* POST /doctor/toggle-slot
toggle_slot(S, doctor_id, date, time, is_available) ==
    LET sid == FirstSlot(S, doctor_id, date, time)
    IN  IF sid # NoSlot
        THEN SetAvailable(S, sid, is_available)
        ELSE S \cup {[id |-> NextId(S), doctor_id |-> doctor_id, date |-> date,
                      time |-> time, is_available |-> is_available]}

ToggleSlot(doctor, date, time, b) ==
    /\ MatchingSlots(slots, doctor, date, time) # {} \/ RoomForSlot
    /\ slots' = toggle_slot(slots, doctor, date, time, b)
    /\ last' = Request("toggle_slot", TRUE)
    /\ UNCHANGED <<appointments, notifications, threads, seeding, medical_records>>

\* A call of models.create_appointment with a nurse assigned (the booking
\* view below is the call without one)
CreateAppointment(patient, doctor, date, time, nurse) ==
    LET r == create_appointment(appointments, slots, notifications,
                                patient, doctor, date, time, nurse)
    IN  /\ Cardinality(r.appointments) <= MaxAppointments
        /\ RoomForNotifications(Len(r.notifications) - Len(notifications))
        /\ appointments' = r.appointments
        /\ slots' = r.slots
        /\ notifications' = r.notifications
        /\ last' = Request("create_appointment", r.appointment # NoAppointment)
        /\ UNCHANGED <<threads, seeding, medical_records>>

\* Appointment.query.get(id) found nothing / get_or_404 aborted with 404
Unchanged(A, S, N) ==
    [appointments |-> A, slots |-> S, notifications |-> N, ok |-> FALSE]

\* Mutant of OpenSlot: the record found is removed instead of reopened.
OpenSlotDeletesRecord(S, doctor_id, date, time) ==
    {s \in S : s.id # FirstSlot(S, doctor_id, date, time)}

\* "slot = ...first(); if slot: slot.is_available = True"
OpenSlot(S, doctor_id, date, time) ==
    LET sid == FirstSlot(S, doctor_id, date, time)
    IN  IF sid # NoSlot THEN SetAvailable(S, sid, TRUE) ELSE S

\* db.session.delete(appointment); commit.  The row goes, and the unit of
\* work sets appointment_id to NULL on the Notification rows that refer to it
\* (backref 'notifications' without delete cascade, nullable foreign key).
DeleteAppointment(A, id) == {a \in A : a.id # id}
DetachNotifications(N, id) ==
    [i \in DOMAIN N |->
        IF N[i].appointment_id = id
        THEN [N[i] EXCEPT !.appointment_id = NoAppointment] ELSE N[i]]

\* POST /patient/book-appointment: the reschedule prefix (old slot freed, old
\* appointment deleted) when reschedule_id names an appointment of the
\* session's patient, then create_appointment without a nurse.
book_appointment(A, S, N, user, doctor_id, date, time, reschedule_id) ==
    LET owned == /\ reschedule_id # NoAppointment
                 /\ HasAppointment(A, reschedule_id)
                 /\ AppointmentRow(A, reschedule_id).patient_id = user
        old == AppointmentRow(A, reschedule_id)
        S1 == IF owned THEN OpenSlot(S, old.doctor_id, old.date, old.time) ELSE S
        A1 == IF owned THEN DeleteAppointment(A, reschedule_id) ELSE A
        N1 == IF owned THEN DetachNotifications(N, reschedule_id) ELSE N
    IN  create_appointment(A1, S1, N1, user, doctor_id, date, time, NoNurse)

BookAppointment(user, doctor, date, time, rid) ==
    LET r == book_appointment(appointments, slots, notifications,
                              user, doctor, date, time, rid)
    IN  /\ Cardinality(r.appointments) <= MaxAppointments
        /\ RoomForNotifications(Len(r.notifications) - Len(notifications))
        /\ appointments' = r.appointments
        /\ slots' = r.slots
        /\ notifications' = r.notifications
        /\ last' = Request(IF rid = NoAppointment THEN "book_appointment"
                                                   ELSE "reschedule",
                           r.appointment # NoAppointment)
        /\ UNCHANGED <<threads, seeding, medical_records>>

\* POST /patient/cancel-appointment/<id>  (the view named cancel_appointment
\* in app.py, which hides the helper imported from models)
cancel_appointment_route(A, S, N, user, appointment_id) ==
    IF ~HasAppointment(A, appointment_id) THEN Unchanged(A, S, N)
    ELSE LET appt == AppointmentRow(A, appointment_id)
         IN  IF appt.patient_id # user THEN Unchanged(A, S, N)
             ELSE [appointments |-> DeleteAppointment(A, appointment_id),
                   slots |-> OpenSlot(S, appt.doctor_id, appt.date, appt.time),
                   notifications |-> DetachNotifications(N, appointment_id),
                   ok |-> TRUE]

CancelRoute(user, id) ==
    LET r == cancel_appointment_route(appointments, slots, notifications, user, id)
    IN  /\ appointments' = r.appointments
        /\ slots' = r.slots
        /\ notifications' = r.notifications
        /\ last' = Request("cancel_route", r.ok)
        /\ UNCHANGED <<threads, seeding, medical_records>>

\* models.cancel_appointment
CancelNotifications(N, appt) ==
    N \o <<Notification(appt.doctor_id, appt.id, "cancelled_doctor"),
           Notification(appt.patient_id, appt.id, "cancelled_patient")>>
      \o (IF appt.nurse_id # NoNurse
            THEN <<Notification(appt.nurse_id, appt.id, "cancelled_nurse")>>
            ELSE <<>>)

SetStatus(A, id, status) ==
    {IF a.id = id THEN [a EXCEPT !.status = status] ELSE a : a \in A}

\* Mutant of cancel_appointment: the "if appointment" test is missing and
\* True is returned for any id.
cancel_appointment_unchecked(A, S, N, appointment_id) ==
    [appointments |-> SetStatus(A, appointment_id, "cancelled"),
     slots |-> S,
     notifications |-> N,
     ok |-> TRUE]

cancel_appointment(A, S, N, appointment_id) ==
    IF ~HasAppointment(A, appointment_id) THEN Unchanged(A, S, N)
    ELSE [appointments |-> SetStatus(A, appointment_id, "cancelled"),
          slots |-> S,
          notifications |->
              CancelNotifications(N, AppointmentRow(A, appointment_id)),
          ok |-> TRUE]

CancelModel(id) ==
    LET r == cancel_appointment(appointments, slots, notifications, id)
    IN  /\ RoomForNotifications(Len(r.notifications) - Len(notifications))
        /\ appointments' = r.appointments
        /\ slots' = r.slots
        /\ notifications' = r.notifications
        /\ last' = Request("cancel_model", r.ok)
        /\ UNCHANGED <<threads, seeding, medical_records>>

\* Mutant of doctor_appointment_detail: the ownership test is missing.
doctor_appointment_detail_any_doctor(A, S, N, user, appointment_id, status) ==
    IF ~HasAppointment(A, appointment_id) THEN Unchanged(A, S, N)
    ELSE [appointments |-> SetStatus(A, appointment_id, status),
          slots |-> S, notifications |-> N, ok |-> TRUE]

\* POST /doctor/appointment/<id>: notes and status are taken from the form.
doctor_appointment_detail(A, S, N, user, appointment_id, status) ==
    IF ~HasAppointment(A, appointment_id) THEN Unchanged(A, S, N)
    ELSE IF AppointmentRow(A, appointment_id).doctor_id # user
         THEN Unchanged(A, S, N)
         ELSE [appointments |-> SetStatus(A, appointment_id, status),
               slots |-> S, notifications |-> N, ok |-> TRUE]

DoctorUpdate(user, id, status) ==
    LET r == doctor_appointment_detail(appointments, slots, notifications,
                                       user, id, status)
    IN  /\ appointments' = r.appointments
        /\ slots' = r.slots
        /\ notifications' = r.notifications
        /\ last' = Request("doctor_update", r.ok)
        /\ UNCHANGED <<threads, seeding, medical_records>>

\* Mutant of check_in_patient: the notification goes to the patient.
check_in_patient_notifies_patient(A, S, N, appointment_id) ==
    IF ~HasAppointment(A, appointment_id) THEN Unchanged(A, S, N)
    ELSE [appointments |->
              {IF a.id = appointment_id THEN [a EXCEPT !.checked_in = TRUE]
                                        ELSE a : a \in A},
          slots |-> S,
          notifications |->
              Append(N, Notification(AppointmentRow(A, appointment_id).patient_id,
                                     NoAppointment, "checked_in")),
          ok |-> TRUE]

\* POST /nurse/check-in/<id>
check_in_patient(A, S, N, appointment_id) ==
    IF ~HasAppointment(A, appointment_id) THEN Unchanged(A, S, N)
    ELSE [appointments |->
              {IF a.id = appointment_id THEN [a EXCEPT !.checked_in = TRUE]
                                        ELSE a : a \in A},
          slots |-> S,
          notifications |->
              Append(N, Notification(AppointmentRow(A, appointment_id).doctor_id,
                                     NoAppointment, "checked_in")),
          ok |-> TRUE]

CheckIn(id) ==
    LET r == check_in_patient(appointments, slots, notifications, id)
    IN  /\ RoomForNotifications(Len(r.notifications) - Len(notifications))
        /\ appointments' = r.appointments
        /\ slots' = r.slots
        /\ notifications' = r.notifications
        /\ last' = Request("check_in", r.ok)
        /\ UNCHANGED <<threads, seeding, medical_records>>

Next ==
    \/ \E k \in Keys, b \in BOOLEAN : ToggleSlot(k[1], k[2], k[3], b)
    \/ \E p \in Patients, k \in Keys, n \in Nurses :
          CreateAppointment(p, k[1], k[2], k[3], n)
    \/ \E p \in Patients, k \in Keys, rid \in AppointmentIds \cup {NoAppointment} :
          BookAppointment(p, k[1], k[2], k[3], rid)
    \/ \E p \in Patients, id \in AppointmentIds : CancelRoute(p, id)
    \/ \E id \in AppointmentIds : CancelModel(id)
    \/ \E d \in Doctors, id \in AppointmentIds, st \in Statuses :
          DoctorUpdate(d, id, st)
    \/ \E id \in AppointmentIds : CheckIn(id)

Spec == Init /\ [][Next]_vars

\* ------------------------------------------------- interleaved requests
\* Two request threads, one request each, over a database that earlier
\* toggle_slot requests have filled.  A step is one database read or one
\* commit of the handler; what a thread loaded stays in its session until
\* its next query.
SeedSlots ==
    LET one(b) == toggle_slot({}, 1, 1, "09:00", b)
    IN  {{}, one(TRUE), one(FALSE), toggle_slot(one(TRUE), 1, 1, "10:00", TRUE)}

InitConc ==
    /\ appointments = {}
    /\ slots \in SeedSlots
    /\ notifications = <<>>
    /\ last = NoRequest
    /\ pc = [t \in Threads |-> "idle"]
    /\ req = [t \in Threads |-> NoArgs]
    /\ loc = [t \in Threads |-> NoLocals]
    /\ schedules = <<>>
    /\ seed = NoSeed
    /\ medical_records = <<>>

SlotRow(S, sid) == CHOOSE s \in S : s.id = sid

\* The flush of "slot.is_available = b": an UPDATE of the loaded row is
\* emitted only when b differs from the value the session loaded.
FlushAvailable(S, sid, loaded, b) ==
    IF loaded = b THEN S ELSE SetAvailable(S, sid, b)

\* create_appointment: get_available_time_slots and the test on its result
ConcCheck(t, patient, doctor, date, time, nurse) ==
    /\ pc[t] = "idle"
    /\ req' = [req EXCEPT ![t] = Args("create_appointment", patient, doctor,
                                      date, time, nurse, FALSE)]
    /\ IF SlotIsAvailable(slots, doctor, date, time)
       THEN pc' = [pc EXCEPT ![t] = "ca_insert"]
       ELSE pc' = [pc EXCEPT ![t] = "done"]
    /\ UNCHANGED <<db, last, loc, seeding, medical_records>>

\* create_appointment: db.session.add(appointment); db.session.commit()
ConcInsert(t) ==
    LET r == req[t]
        appt == NewAppointment(appointments, r.patient_id, r.doctor_id,
                               r.date, r.time, r.nurse_id)
    IN  /\ pc[t] = "ca_insert"
        /\ appointments' = appointments \cup {appt}
        /\ loc' = [loc EXCEPT ![t].appointment = appt.id]
        /\ pc' = [pc EXCEPT ![t] = "ca_query"]
        /\ UNCHANGED <<slots, notifications, last, req, seeding, medical_records>>

\* create_appointment: slot = DoctorAvailabilitySlot.query...first()
ConcQuery(t) ==
    LET r == req[t]
        sid == FirstSlot(slots, r.doctor_id, r.date, r.time)
    IN  /\ pc[t] = "ca_query"
        /\ loc' = [loc EXCEPT ![t].slot = sid,
                              ![t].loaded = IF sid = NoSlot THEN FALSE
                                            ELSE SlotRow(slots, sid).is_available]
        /\ pc' = [pc EXCEPT ![t] = IF sid = NoSlot THEN "ca_notify" ELSE "ca_close"]
        /\ UNCHANGED <<db, last, req, seeding, medical_records>>

\* create_appointment: slot.is_available = False; db.session.commit()
ConcClose(t) ==
    /\ pc[t] = "ca_close"
    /\ slots' = FlushAvailable(slots, loc[t].slot, loc[t].loaded, FALSE)
    /\ pc' = [pc EXCEPT ![t] = "ca_notify"]
    /\ UNCHANGED <<appointments, notifications, last, req, loc, seeding, medical_records>>

\* create_appointment: create_appointment_notifications(appointment); return
ConcNotify(t) ==
    /\ pc[t] = "ca_notify"
    /\ notifications' = create_appointment_notifications(
                            notifications,
                            AppointmentRow(appointments, loc[t].appointment))
    /\ loc' = [loc EXCEPT ![t].ok = TRUE]
    /\ pc' = [pc EXCEPT ![t] = "done"]
    /\ UNCHANGED <<appointments, slots, last, req, seeding, medical_records>>

\* toggle_slot: slot = DoctorAvailabilitySlot.query...first()
ConcToggleQuery(t, doctor, date, time, b) ==
    LET sid == FirstSlot(slots, doctor, date, time)
    IN  /\ pc[t] = "idle"
        /\ req' = [req EXCEPT ![t] = Args("toggle_slot", 0, doctor, date, time,
                                          NoNurse, b)]
        /\ loc' = [loc EXCEPT ![t].slot = sid,
                              ![t].loaded = IF sid = NoSlot THEN FALSE
                                            ELSE SlotRow(slots, sid).is_available]
        /\ pc' = [pc EXCEPT ![t] = "ts_commit"]
        /\ UNCHANGED <<db, last, seeding, medical_records>>

\* toggle_slot: the assignment or the db.session.add, then db.session.commit()
ConcToggleCommit(t) ==
    LET r == req[t]
    IN  /\ pc[t] = "ts_commit"
        /\ loc[t].slot = NoSlot => RoomForSlot
        /\ slots' = IF loc[t].slot # NoSlot
                    THEN FlushAvailable(slots, loc[t].slot, loc[t].loaded,
                                        r.is_available)
                    ELSE slots \cup {[id |-> NextId(slots),
                                      doctor_id |-> r.doctor_id, date |-> r.date,
                                      time |-> r.time,
                                      is_available |-> r.is_available]}
        /\ loc' = [loc EXCEPT ![t].ok = TRUE]
        /\ pc' = [pc EXCEPT ![t] = "done"]
        /\ UNCHANGED <<appointments, notifications, last, req, seeding, medical_records>>

NextConc ==
    \/ \E t \in Threads, p \in Patients, k \in Keys, n \in Nurses \cup {NoNurse} :
          ConcCheck(t, p, k[1], k[2], k[3], n)
    \/ \E t \in Threads : ConcInsert(t)
    \/ \E t \in Threads : ConcQuery(t)
    \/ \E t \in Threads : ConcClose(t)
    \/ \E t \in Threads : ConcNotify(t)
    \/ \E t \in Threads, k \in Keys, b \in BOOLEAN :
          ConcToggleQuery(t, k[1], k[2], k[3], b)
    \/ \E t \in Threads : ConcToggleCommit(t)

SpecConc == InitConc /\ [][NextConc]_vars

\* ------------------------------------------- app.create_default_schedule
\* Dates count days from a Monday, so that date.weekday() (Monday = 0 ...
\* Sunday = 6) is the remainder by 7.
Weekday(date) == date % 7

\* timedelta(days=30)
WindowDays == 30

\* The days datetime.now().date() is drawn from: one per weekday.
StartDays == 0..6

\* Mutant of IsWorkday: Saturday passes the test.
IsWorkdayOrSaturday(date) == Weekday(date) <= 5

\* "if current_date.weekday() < 5"
IsWorkday(date) == Weekday(date) < 5

\* DoctorSchedule(doctor_id, date, '09:00', '17:00', is_available=True)
DoctorSchedule(doctor_id, date) ==
    [doctor_id |-> doctor_id, date |-> date, start_time |-> "09:00",
     end_time |-> "17:00", is_available |-> TRUE]

\* signup of a doctor calls create_default_schedule(user.id): the three
\* assignments before the loop
SeedStart(doctor, today) ==
    /\ seed.pc = "idle"
    /\ seed' = [pc |-> "loop", doctor_id |-> doctor, start_date |-> today,
                end_date |-> today + WindowDays, current_date |-> today,
                added |-> <<>>]
    /\ UNCHANGED <<db, last, threads, schedules, medical_records>>

\* One turn of "while current_date <= end_date"
SeedStep ==
    /\ seed.pc = "loop"
    /\ seed.current_date <= seed.end_date
    /\ seed' = [seed EXCEPT
                  !.added = IF IsWorkday(seed.current_date)
                            THEN Append(@, DoctorSchedule(seed.doctor_id,
                                                          seed.current_date))
                            ELSE @,
                  !.current_date = @ + 1]
    /\ UNCHANGED <<db, last, threads, schedules, medical_records>>

\* Loop exit and db.session.commit()
SeedCommit ==
    /\ seed.pc = "loop"
    /\ seed.current_date > seed.end_date
    /\ schedules' = schedules \o seed.added
    /\ seed' = [seed EXCEPT !.pc = "done", !.added = <<>>]
    /\ UNCHANGED <<db, last, threads, medical_records>>

NextSeed ==
    \/ \E d \in Doctors, today \in StartDays : SeedStart(d, today)
    \/ SeedStep
    \/ SeedCommit

SpecSeed == Init /\ [][NextSeed]_vars

\* ------------------------------------------------ notifications handling
\* limit=10 of get_user_notifications
NotificationLimit == 10

\* Notification.query.filter_by(user_id).order_by(created_at.desc())
\* .limit(limit).all(): the ids (indices) of the user's latest rows.  Rows are
\* stamped when they are inserted, so the latest rows are the last ones.
get_user_notifications(N, user_id, limit) ==
    LET mine == {i \in DOMAIN N : N[i].user_id = user_id}
    IN  {i \in mine : Cardinality({j \in mine : j > i}) < limit}

\* models.mark_notification_read: Notification.query.get; if found, is_read
\* = True, commit, return True; else return False.
mark_notification_read(N, notification_id) ==
    IF notification_id \in DOMAIN N
    THEN [notifications |-> [N EXCEPT ![notification_id].is_read = TRUE],
          ok |-> TRUE]
    ELSE [notifications |-> N, ok |-> FALSE]

\* POST /notifications/mark-read/<id>: any logged-in user, any id.
MarkRead(notification_id) ==
    LET r == mark_notification_read(notifications, notification_id)
    IN  /\ notifications' = r.notifications
        /\ last' = Request("mark_read", r.ok)
        /\ UNCHANGED <<appointments, slots, threads, seeding, medical_records>>

\* GET /notifications: every unread row get_user_notifications returns for
\* the session's user is set read, then commit.
view_notifications(N, user_id) ==
    LET shown == get_user_notifications(N, user_id, NotificationLimit)
    IN  [i \in DOMAIN N |->
            IF i \in shown /\ ~N[i].is_read
            THEN [N[i] EXCEPT !.is_read = TRUE] ELSE N[i]]

ViewNotifications(user) ==
    /\ notifications' = view_notifications(notifications, user)
    /\ last' = Request("view_notifications", TRUE)
    /\ UNCHANGED <<appointments, slots, threads, seeding, medical_records>>

\* POST /nurse/send-notification: one row for the recipient, no appointment.
SendNotification(recipient_id) ==
    /\ RoomForNotifications(1)
    /\ notifications' = Append(notifications,
                               Notification(recipient_id, NoAppointment,
                                            "message"))
    /\ last' = Request("send_notification", TRUE)
    /\ UNCHANGED <<appointments, slots, threads, seeding, medical_records>>

\* MedicalRecord(patient_id, doctor_id, ...): the texts are left out.
MedicalRecord(patient_id, doctor_id) ==
    [patient_id |-> patient_id, doctor_id |-> doctor_id]

\* POST /doctor/add_medical_record/<patient_id>: 404 unless patient_id is a
\* patient; the record, commit; a row for the patient, commit.
AddMedicalRecord(user, patient_id) ==
    /\ RoomForNotifications(1)
    /\ IF patient_id \in Patients
       THEN /\ medical_records' = Append(medical_records,
                                         MedicalRecord(patient_id, user))
            /\ notifications' = Append(notifications,
                                       Notification(patient_id, NoAppointment,
                                                    "medical_record"))
            /\ last' = Request("add_medical_record", TRUE)
       ELSE /\ last' = Request("add_medical_record", FALSE)
            /\ UNCHANGED <<notifications, medical_records>>
    /\ UNCHANGED <<appointments, slots, threads, seeding>>

\* The requests that insert or change Notification rows, for one patient,
\* one doctor and one slot.
NotifPatient == 3
NotifKey == <<1, 1, "09:00">>
NotificationIds == 1..MaxNotifications

NextNotif ==
    \/ \E b \in BOOLEAN : ToggleSlot(NotifKey[1], NotifKey[2], NotifKey[3], b)
    \/ \E n \in Nurses :
          CreateAppointment(NotifPatient, NotifKey[1], NotifKey[2],
                            NotifKey[3], n)
    \/ \E rid \in AppointmentIds \cup {NoAppointment} :
          BookAppointment(NotifPatient, NotifKey[1], NotifKey[2],
                          NotifKey[3], rid)
    \/ \E id \in AppointmentIds : CancelRoute(NotifPatient, id)
    \/ \E id \in AppointmentIds : CancelModel(id)
    \/ \E id \in AppointmentIds, st \in Statuses :
          DoctorUpdate(NotifKey[1], id, st)
    \/ \E id \in AppointmentIds : CheckIn(id)
    \/ \E id \in NotificationIds : MarkRead(id)
    \/ \E u \in {NotifKey[1], NotifPatient} \cup Nurses : ViewNotifications(u)
    \/ SendNotification(NotifPatient)
    \/ \E d \in Doctors, u \in {NotifPatient} \cup Nurses :
          AddMedicalRecord(d, u)

SpecNotif == Init /\ [][NextNotif]_vars

\* ------------------------------------------- lifecycle beside the seeding
\* The requests of one patient over the slots of one doctor, and one run of
\* create_default_schedule for that doctor that starts on a Saturday.
SeedDay == 5
SlotKeys == {k \in Keys : k[1] = NotifKey[1]}

NextSlots ==
    \/ \E k \in SlotKeys, b \in BOOLEAN : ToggleSlot(k[1], k[2], k[3], b)
    \/ \E k \in SlotKeys, rid \in AppointmentIds \cup {NoAppointment} :
          BookAppointment(NotifPatient, k[1], k[2], k[3], rid)
    \/ \E id \in AppointmentIds : CancelRoute(NotifPatient, id)
    \/ \E id \in AppointmentIds : CheckIn(id)
    \/ SeedStart(NotifKey[1], SeedDay)
    \/ SeedStep
    \/ SeedCommit

SpecSlots == Init /\ [][NextSlots]_vars

\* ------------------------------------------------------------ properties
Key(r) == <<r.doctor_id, r.date, r.time>>
Scheduled(A) == {a \in A : a.status = "scheduled"}

\* The slot of key k is open: a slot record of that key has is_available.
IsOpen(S, k) ==
    \E s \in S : Key(s) = k /\ s.is_available

IsCreate(r) == r.op \in {"create_appointment", "book_appointment"}
IsCancel(r) == r.op \in {"cancel_route", "cancel_model"}

\* A call of create_appointment(p, k, n) that runs on the current state: the
\* helper called directly, or the booking view without reschedule_id.
CreateCall(p, k, n) ==
    \/ CreateAppointment(p, k[1], k[2], k[3], n)
    \/ n = NoNurse /\ BookAppointment(p, k[1], k[2], k[3], NoAppointment)

\* C1: after any sequence of book, reschedule, patient cancel, doctor status
\* update and toggle_slot requests, at most one appointment with status
\* 'scheduled' exists for any (doctor, date, time).
AtMostOneScheduledPerSlot ==
    \A a, b \in Scheduled(appointments) : Key(a) = Key(b) => a = b

\* C2: of two booking requests for the same (doctor, date, time) that run
\* concurrently, never do both return an appointment.
NoConcurrentDoubleBooking ==
    \A t, u \in Threads :
        (/\ t # u
         /\ pc[t] = "done" /\ pc[u] = "done"
         /\ req[t].op = "create_appointment" /\ req[u].op = "create_appointment"
         /\ Key(req[t]) = Key(req[u]))
        => ~(loc[t].ok /\ loc[u].ok)

\* C3: after every completed request, every appointment with status
\* 'scheduled' has exactly one slot record of its (doctor, date, time), and
\* that record has is_available = false.
ScheduledHasOneClosedSlot ==
    \A a \in Scheduled(appointments) :
        LET m == MatchingSlots(slots, a.doctor_id, a.date, a.time)
        IN  Cardinality(m) = 1 /\ \A s \in m : ~s.is_available

\* C4: create_appointment called for an open (doctor, date, time) succeeds,
\* adds exactly one appointment, with status 'scheduled' and that key, and
\* afterwards get_available_time_slots of that doctor and date does not
\* contain that time.
BookingOpenSlotSucceeds ==
    [][\A p \in Patients, k \in Keys, n \in Nurses \cup {NoNurse} :
          (IsCreate(last') /\ IsOpen(slots, k) /\ CreateCall(p, k, n))
          => /\ last'.ok
             /\ appointments \subseteq appointments'
             /\ Cardinality(appointments' \ appointments) = 1
             /\ \A a \in appointments' \ appointments :
                   /\ a.status = "scheduled"
                   /\ Key(a) = k
                   /\ a.patient_id = p
             /\ k[3] \notin get_available_time_slots(slots', k[1], k[2])]_vars

\* C4 witness: a booking of an open slot has returned its appointment.
BookingOpenSlotDone ==
    /\ IsCreate(last)
    /\ last.ok
    /\ \E a \in Scheduled(appointments) : ~IsOpen(slots, Key(a))

\* C5: create_appointment called for a (doctor, date, time) with no slot
\* record, or whose record has is_available = false, returns no appointment
\* and leaves appointments, slot records and notifications unchanged.
BookingClosedSlotRefused ==
    [][\A p \in Patients, k \in Keys, n \in Nurses \cup {NoNurse} :
          (IsCreate(last') /\ ~IsOpen(slots, k) /\ CreateCall(p, k, n))
          => ~last'.ok /\ UNCHANGED db]_vars

\* C5 witness: a booking has been refused while a closed slot record exists
\* and no key is open.
BookingClosedSlotRefusedDone ==
    /\ IsCreate(last)
    /\ ~last.ok
    /\ \E s \in slots : ~s.is_available
    /\ \A k \in Keys : ~IsOpen(slots, k)

\* C6: in every committed state, a booking's new appointment, the closing of
\* its slot and its Created notifications are persisted all together or not
\* at all.
BookingAtomic ==
    \A t \in Threads :
        (req[t].op = "create_appointment" /\ loc[t].appointment # NoAppointment)
        => /\ ~IsOpen(slots, Key(req[t]))
           /\ \E i \in DOMAIN notifications :
                 /\ notifications[i].appointment_id = loc[t].appointment
                 /\ notifications[i].kind = "created_patient"

\* The cancel of an existing appointment: the patient's view called by the
\* owner, or the helper of models.py.
CancelCall(a) ==
    \/ CancelRoute(a.patient_id, a.id)
    \/ CancelModel(a.id)

\* C7: cancelling an existing appointment with status 'scheduled' leaves its
\* slot with is_available = true and the appointment persisted with status
\* 'cancelled'.
CancelReopensSlotKeepsRow ==
    [][\A a \in Scheduled(appointments) :
          (IsCancel(last') /\ CancelCall(a))
          => /\ IsOpen(slots', Key(a))
             /\ \E b \in appointments' : b.id = a.id /\ b.status = "cancelled"]_vars

\* C8: cancelling an existing appointment inserts exactly one 'cancelled'
\* notification for the doctor, one for the patient and one for the nurse
\* when a nurse is assigned, whichever cancel entry point is used.
CancelNotifiesAll ==
    [][\A a \in appointments :
          (IsCancel(last') /\ CancelCall(a))
          => LET added == SubSeq(notifications', Len(notifications) + 1,
                                 Len(notifications'))
                 to(u) == {i \in DOMAIN added :
                              /\ added[i].user_id = u
                              /\ added[i].kind \in {"cancelled_doctor",
                                     "cancelled_patient", "cancelled_nurse"}}
             IN  /\ Len(added) = IF a.nurse_id = NoNurse THEN 2 ELSE 3
                 /\ Cardinality(to(a.doctor_id)) = 1
                 /\ Cardinality(to(a.patient_id)) = 1
                 /\ a.nurse_id # NoNurse => Cardinality(to(a.nurse_id)) = 1]_vars

\* C9: cancelling an appointment id that does not exist returns failure and
\* leaves appointments, slot records and notifications unchanged.
CancelMissingRefused ==
    [][\A id \in AppointmentIds :
          (/\ IsCancel(last')
           /\ ~HasAppointment(appointments, id)
           /\ \/ CancelModel(id)
              \/ \E p \in Patients : CancelRoute(p, id))
          => ~last'.ok /\ UNCHANGED db]_vars

\* C9 witness: the helper has returned False, which it does for a missing
\* id only, with appointments and notifications present in the database.
CancelMissingRefusedDone ==
    /\ last.op = "cancel_model"
    /\ ~last.ok
    /\ appointments # {}
    /\ notifications # <<>>

\* C10: once an appointment's status is 'cancelled' or 'completed', no request
\* changes its status to a different value.  (A reschedule of the appointment
\* deletes its row; the row that then takes its id is another appointment.)
TerminalStatusStable ==
    [][\A a \in appointments :
          a.status \in {"cancelled", "completed"}
          => \/ \A b \in appointments' : b.id = a.id => b.status = a.status
             \/ /\ last'.op = "reschedule"
                /\ \E p \in Patients, k \in Keys :
                      BookAppointment(p, k[1], k[2], k[3], a.id)]_vars

\* The rows a request appended to the Notification table.
Added(N, N2) == SubSeq(N2, Len(N) + 1, Len(N2))

\* C11: when the owning doctor updates a scheduled appointment's status to
\* 'cancelled', the slot of the appointment is reopened and the notifications
\* inserted are those a patient-initiated cancel of it would insert.
DoctorCancelLikePatientCancel ==
    [][\A a \in Scheduled(appointments) :
          (last'.op = "doctor_update"
           /\ DoctorUpdate(a.doctor_id, a.id, "cancelled"))
          => /\ IsOpen(slots', Key(a))
             /\ Added(notifications, notifications')
                = Added(notifications,
                        cancel_appointment_route(appointments, slots,
                            notifications, a.patient_id, a.id).notifications)]_vars

\* C12: a successful create_appointment inserts exactly 3 notifications linked
\* to the new appointment (doctor, patient, nurse) when a nurse is assigned
\* and exactly 2 (doctor, patient) when none is; no other user receives one.
CreatedNotificationsFanOut ==
    [][\A p \in Patients, k \in Keys, n \in Nurses \cup {NoNurse} :
          (IsCreate(last') /\ last'.ok /\ CreateCall(p, k, n))
          => LET added == Added(notifications, notifications')
                 to(u) == {i \in DOMAIN added : added[i].user_id = u}
                 recipients == {k[1], p} \cup (IF n = NoNurse THEN {} ELSE {n})
             IN  /\ Len(added) = IF n = NoNurse THEN 2 ELSE 3
                 /\ \A i \in DOMAIN added :
                       /\ added[i].user_id \in recipients
                       /\ \E a \in appointments' \ appointments :
                             added[i].appointment_id = a.id
                 /\ \A u \in recipients : Cardinality(to(u)) = 1]_vars

\* C12 witness: a booking with a nurse has returned and its three
\* notifications are the table.
CreatedNotificationsFanOutDone ==
    /\ last.op = "create_appointment"
    /\ last.ok
    /\ Len(notifications) = 3
    /\ \E i \in DOMAIN notifications : notifications[i].user_id \in Nurses

\* C13: check-in of an existing appointment sets checked_in = true, inserts
\* exactly one notification, whose recipient is the appointment's doctor, and
\* leaves every slot record and the appointment's status, date, time and
\* doctor unchanged.
CheckInFrame ==
    [][\A a \in appointments :
          (last'.op = "check_in" /\ CheckIn(a.id))
          => /\ appointments' = (appointments \ {a})
                                \cup {[a EXCEPT !.checked_in = TRUE]}
             /\ slots' = slots
             /\ Len(notifications') = Len(notifications) + 1
             /\ SubSeq(notifications', 1, Len(notifications)) = notifications
             /\ notifications'[Len(notifications')].user_id = a.doctor_id]_vars

\* C13 witness: a check-in has succeeded on an appointment.
CheckInDone ==
    /\ last.op = "check_in"
    /\ last.ok
    /\ \E a \in appointments : a.checked_in
    /\ \E i \in DOMAIN notifications : notifications[i].kind = "checked_in"

\* C14: a reschedule request naming an existing appointment that the
\* requesting patient does not own performs no mutation.
RescheduleNotOwnedNoMutation ==
    [][\A a \in appointments :
          \A p \in Patients \ {a.patient_id}, k \in Keys :
             (last'.op = "reschedule" /\ BookAppointment(p, k[1], k[2], k[3], a.id))
             => UNCHANGED db]_vars

\* C15: a reschedule request by the owning patient whose new (doctor, date,
\* time) is not open is refused with no state mutated.
RescheduleClosedSlotNoMutation ==
    [][\A a \in Scheduled(appointments), k \in Keys :
          (/\ last'.op = "reschedule"
           /\ ~IsOpen(slots, k)
           /\ BookAppointment(a.patient_id, k[1], k[2], k[3], a.id))
          => ~last'.ok /\ UNCHANGED db]_vars

\* C16: a patient cancel request for an appointment of another patient, and
\* a doctor update request for an appointment of another doctor, leave the
\* appointment, every slot record and the notifications unchanged.
NotOwnerNoMutation ==
    [][\A a \in appointments :
          /\ \A p \in Patients \ {a.patient_id} :
                (last'.op = "cancel_route" /\ CancelRoute(p, a.id))
                => ~last'.ok /\ UNCHANGED db
          /\ \A d \in Doctors \ {a.doctor_id}, st \in Statuses :
                (last'.op = "doctor_update" /\ DoctorUpdate(d, a.id, st))
                => ~last'.ok /\ UNCHANGED db]_vars

\* C16 witness: a doctor update has been refused although every id a request
\* can name has a row, so the refusal was the ownership test.
NotOwnerRefusedDone ==
    /\ last.op = "doctor_update"
    /\ ~last.ok
    /\ \A id \in AppointmentIds : HasAppointment(appointments, id)

\* C17: in every reachable state, concurrent toggle_slot requests of one
\* doctor for one date and time included, at most one slot record exists per
\* (doctor, date, time).
OneSlotRecordPerKey ==
    \A s1, s2 \in slots : Key(s1) = Key(s2) => s1 = s2

\* C18: after toggle_slot(doctor, date, time, b) the slot is open iff b,
\* whether or not a record existed before, and the same call applied a second
\* time leaves the slot store unchanged.
ToggleSlotIdempotentUpsert ==
    [][\A k \in Keys, b \in BOOLEAN :
          (last'.op = "toggle_slot" /\ ToggleSlot(k[1], k[2], k[3], b))
          => /\ (k[3] \in get_available_time_slots(slots', k[1], k[2])) <=> b
             /\ toggle_slot(slots', k[1], k[2], k[3], b) = slots']_vars

\* C18 witness: a toggle_slot has overwritten the flag of an existing record
\* (no appointment exists, so only toggle_slot can have closed the slot).
ToggleSlotDone ==
    /\ last.op = "toggle_slot"
    /\ appointments = {}
    /\ \E s \in slots : ~s.is_available
    /\ \E s \in slots : s.is_available

\* The Monday-to-Friday dates of the inclusive window [today, today + 30].
WeekdaysOfWindow(today) ==
    {d \in today..(today + 30) : Weekday(d) \notin {5, 6}}

\* C19: for every start weekday, create_default_schedule creates one
\* DoctorSchedule record (09:00-17:00, is_available = true) for each
\* Monday-to-Friday date of the 31 days [today, today + 30] and none for a
\* Saturday or Sunday; a run that starts on a Saturday has the following
\* Monday as its first date.
DefaultScheduleWeekdays ==
    seed.pc = "done"
    => LET today == seed.start_date
           on(d) == {i \in DOMAIN schedules : schedules[i].date = d}
       IN  /\ Len(schedules) = Cardinality(WeekdaysOfWindow(today))
           /\ \A d \in WeekdaysOfWindow(today) : Cardinality(on(d)) = 1
           /\ \A i \in DOMAIN schedules :
                 /\ schedules[i].date \in WeekdaysOfWindow(today)
                 /\ schedules[i].doctor_id = seed.doctor_id
                 /\ schedules[i].start_time = "09:00"
                 /\ schedules[i].end_time = "17:00"
                 /\ schedules[i].is_available
           /\ Weekday(today) = 5 => schedules[1].date = today + 2

\* C19 witness: a run that started on a Saturday has committed its records.
DefaultScheduleFromSaturdayDone ==
    /\ seed.pc = "done"
    /\ Weekday(seed.start_date) = 5
    /\ Len(schedules) > 0

\* C20: every notification is inserted with is_read = false, and no request
\* changes a field other than is_read (recipient, message, appointment) of a
\* notification that exists.
NotificationOnlyReadFlagChanges ==
    [][/\ Len(notifications') >= Len(notifications)
       /\ \A i \in DOMAIN notifications :
             [notifications'[i] EXCEPT !.is_read = notifications[i].is_read]
             = notifications[i]
       /\ \A i \in (DOMAIN notifications') \ (DOMAIN notifications) :
             ~notifications'[i].is_read]_vars

\* The part of C20 about the recipient and the message text alone.
NotificationRecipientAndTextKept ==
    [][/\ Len(notifications') >= Len(notifications)
       /\ \A i \in DOMAIN notifications :
             /\ notifications'[i].user_id = notifications[i].user_id
             /\ notifications'[i].kind = notifications[i].kind
       /\ \A i \in (DOMAIN notifications') \ (DOMAIN notifications) :
             ~notifications'[i].is_read]_vars

\* C21: slot records are never deleted: every slot record of a state is
\* still there, with its id and its (doctor, date, time), after any book,
\* cancel, reschedule, doctor update or toggle_slot request.
SlotRecordsPersist ==
    [][\A s \in slots :
          \E t \in slots' : t.id = s.id /\ Key(t) = Key(s)]_vars

\* C21 witness: an appointment has been deleted (its notifications are
\* detached), a reschedule has booked, and an open and a closed slot record
\* are both there.
SlotRecordsPersistDone ==
    /\ last.op = "reschedule"
    /\ last.ok
    /\ \E i \in DOMAIN notifications :
          /\ notifications[i].kind = "created_patient"
          /\ notifications[i].appointment_id = NoAppointment
    /\ \E s, t \in slots : s.is_available /\ ~t.is_available

\* C22: book, patient cancel, reschedule, check-in and schedule seeding never
\* add a slot record, so a step that adds one is a toggle_slot; where no
\* record exists at a key, the open and close steps and a booking of that key
\* leave the slot store as it is.
OnlyToggleSlotAddsSlotRecord ==
    [][/\ (\E t \in slots' : \A s \in slots : s.id # t.id)
          => \E k \in Keys, b \in BOOLEAN : ToggleSlot(k[1], k[2], k[3], b)
       /\ \A k \in Keys :
             MatchingSlots(slots, k[1], k[2], k[3]) = {}
             => /\ OpenSlot(slots, k[1], k[2], k[3]) = slots
                /\ CloseSlot(slots, k[1], k[2], k[3]) = slots
                /\ \A p \in Patients :
                      create_appointment(appointments, slots, notifications,
                                         p, k[1], k[2], k[3], NoNurse).slots
                      = slots]_vars

\* C22 witness: the seeding has run and a booking has been refused while no
\* slot record exists at all.
NoSlotRecordAddedDone ==
    /\ seed.pc = "done"
    /\ last.op = "book_appointment"
    /\ ~last.ok
    /\ slots = {}

\* The appointment the latest successful booking inserted: ids grow with the
\* largest id, so it is the row with the largest one.
LatestAppointment(A) == CHOOSE a \in A : \A b \in A : b.id <= a.id

\* C23: when the owning patient cancels the appointment a successful booking
\* has just inserted, the slot of that key is open again, no scheduled
\* appointment is left at that key, and a booking of the same slot succeeds.
BookThenCancelRoundTrip ==
    [][(/\ last.op = "book_appointment" /\ last.ok
        /\ last'.op = "cancel_route"
        /\ appointments # {}
        /\ CancelRoute(LatestAppointment(appointments).patient_id,
                       LatestAppointment(appointments).id))
       => LET a == LatestAppointment(appointments)
              k == Key(a)
          IN  /\ IsOpen(slots', k)
              /\ \A b \in Scheduled(appointments') : Key(b) # k
              /\ create_appointment(appointments', slots', notifications',
                                    a.patient_id, k[1], k[2], k[3],
                                    NoNurse).appointment # NoAppointment]_vars

====
